---- MODULE Spec2Model ----
(***************************************************************************)
(* Remus: a messaging bus client on top of redis pattern pub/sub           *)
(* (lib/remus.js).  Strings that the code splits, escapes or matches are   *)
(* modelled as sequences of one-character strings, so that split,          *)
(* replace, startsWith and the pattern match do what the JavaScript does.  *)
(* Payloads are never inspected beyond emptiness and stay opaque strings.  *)
(***************************************************************************)
EXTENDS Integers, Sequences, FiniteSets, TLC

(* ---------------------------- bounds ----------------------------------- *)
\* API calls made by the applications in one run
MaxOps == 3
\* notifications buffered on one incoming connection
MaxInbox == 2

(* ------------------------ string primitives ---------------------------- *)
Colon == <<":">>
DoubleColon == <<":", ":">>
Star == <<"*">>
RoomWord == <<"r", "o", "o", "m">>
\* the placeholder for ':' in a room name ('??SC??')
SCMark == <<"?", "?", "S", "C", "?", "?">>
\* the placeholder for '::' in a broadcast type ('??DC??')
DCMark == <<"?", "?", "D", "C", "?", "?">>
Dash == <<"-">>

\* String.prototype.startsWith
StartsWith(s, p) ==
  /\ Len(p) <= Len(s)
  /\ SubSeq(s, 1, Len(p)) = p

\* String.prototype.indexOf, 1-based; 0 when pat does not occur
IndexOf(s, pat) ==
  LET hits == {i \in 1..(Len(s) - Len(pat) + 1) : SubSeq(s, i, i + Len(pat) - 1) = pat}
  IN IF hits = {} THEN 0 ELSE CHOOSE i \in hits : \A j \in hits : i <= j

\* String.prototype.replace with a string pattern: the FIRST occurrence only
ReplaceFirst(s, pat, rep) ==
  LET i == IndexOf(s, pat)
  IN IF i = 0 THEN s
     ELSE SubSeq(s, 1, i - 1) \o rep \o SubSeq(s, i + Len(pat), Len(s))

\* String.prototype.split with a non-empty string separator
RECURSIVE Split(_, _)
Split(s, sep) ==
  LET i == IndexOf(s, sep)
  IN IF i = 0 THEN <<s>>
     ELSE <<SubSeq(s, 1, i - 1)>> \o Split(SubSeq(s, i + Len(sep), Len(s)), sep)

\* redis glob match of a channel against a subscribed pattern:
\* '*' matches any run of characters, '?' any single character
RECURSIVE GlobMatch(_, _)
GlobMatch(p, s) ==
  IF p = <<>> THEN s = <<>>
  ELSE IF Head(p) = "*"
       THEN IF Tail(p) = <<>> THEN TRUE
            ELSE \E k \in 0..Len(s) : GlobMatch(Tail(p), SubSeq(s, k + 1, Len(s)))
  ELSE IF s = <<>> THEN FALSE
  ELSE /\ (Head(p) = "?" \/ Head(p) = Head(s))
       /\ GlobMatch(Tail(p), Tail(s))

Digits == <<"0", "1", "2", "3", "4", "5", "6", "7", "8", "9">>

\* number to string, as string concatenation does it for msgId
RECURSIVE IdStr(_)
IdStr(n) ==
  IF n < 10 THEN <<Digits[n + 1]>>
  ELSE IdStr(n \div 10) \o <<Digits[(n % 10) + 1]>>

(* ------------------------ values of the model -------------------------- *)
\* the JavaScript undefined / null where a string is expected
UndefinedStr == <<"<undefined>">>
NullStr == <<"<null>">>
NoStr == <<"<none>">>
\* an undefined payload (reply called without an argument; callback(err, null))
Undefined == "<undefined>"

\* payloads the applications send
Msgs == {"hi"}

\* event names of the EventEmitter
EvMessage == <<"m", "e", "s", "s", "a", "g", "e">>
EvBroadcast == <<"b", "r", "o", "a", "d", "c", "a", "s", "t">>
RoomEvent(room) == RoomWord \o Colon \o room

\* The constructor options of the clients that share the redis server, the
\* room names and the broadcast types their applications use, and the
\* arguments their 'message' handlers give reply.
PlainPair ==
  [clients |-> << [namespace |-> <<"n">>, clientId |-> <<"a">>],
                  [namespace |-> <<"n">>, clientId |-> <<"b">>] >>,
   rooms |-> { <<"l", ":", "m">>, <<"l", ":", "m", ":", "k">> },
   types |-> { <<"t">>, <<"t", ":", ":", "u">> },
   replies |-> {"ok", ""}]
RoomNamedPair ==
  [clients |-> << [namespace |-> <<"n">>, clientId |-> <<"a">>],
                  [namespace |-> <<"n">>, clientId |-> RoomWord] >>,
   rooms |-> { <<"a">> },
   types |-> { <<"t">> },
   replies |-> {"ok", Undefined}]
\* a namespace with two ':' in it, one client called 'room', a room 'room'
ColonRoomPair ==
  [clients |-> << [namespace |-> <<"n", ":", "x", ":", "y">>, clientId |-> <<"a">>],
                  [namespace |-> <<"n", ":", "x", ":", "y">>, clientId |-> RoomWord] >>,
   rooms |-> { RoomWord },
   types |-> { <<"t">> },
   replies |-> {"ok"}]
\* three clients that differ in the suppressRedisError option: false, true
\* and not given (the JavaScript booleans are written as strings)
PolicyTrio ==
  [clients |-> << [namespace |-> <<"n">>, clientId |-> <<"a">>,
                   suppressRedisError |-> "false"],
                  [namespace |-> <<"n">>, clientId |-> <<"b">>,
                   suppressRedisError |-> "true"],
                  [namespace |-> <<"n">>, clientId |-> <<"c">>] >>,
   rooms |-> {},
   types |-> {},
   replies |-> {"ok"}]
\* three clients that use direct messages only: the first sends requests,
\* the other two answer them
EchoTrio ==
  [clients |-> << [namespace |-> <<"n">>, clientId |-> <<"a">>],
                  [namespace |-> <<"n">>, clientId |-> <<"b">>],
                  [namespace |-> <<"n">>, clientId |-> <<"c">>] >>,
   rooms |-> {},
   types |-> {},
   replies |-> {"ok"},
   requesters |-> {1}]
Deployments == <<PlainPair, RoomNamedPair, ColonRoomPair, PolicyTrio, EchoTrio>>

VARIABLES
  deploy,          \* which deployment runs (fixed by Init)
  subs,            \* per client: patterns psubscribed on incomingClient, in order
  listeners,       \* per client: EventEmitter listeners, in registration order
  inbox,           \* per client: pmessage notifications on their way to it
  messageId,       \* per client: this._messageId
  messagesWaiting, \* per client: this._messagesWaiting, keyed by the id string
  timers,          \* per client: live setTimeout timers, named by msgId
  outgoingQuit,    \* per client: outgoingClient.quit() was called
  punsubListeners, \* per client: 'punsubscribe' handlers put on incomingClient
  punsubPending,   \* per client: punsubscribe replies of redis on their way
  cbCalls,         \* per client: every invocation of a sendMessage callback
  fired,           \* per client: the msgIds whose deadline timer has fired
  ignored,         \* per client: rooms given to ignoreRoom and not listened to since
  ops,             \* API calls made so far
  last             \* what the last step did

vars == <<deploy, subs, listeners, inbox, messageId, messagesWaiting, timers,
          outgoingQuit, punsubListeners, punsubPending, cbCalls, fired, ignored,
          ops, last>>

Clients == DOMAIN Deployments[deploy].clients
RoomNames == Deployments[deploy].rooms
BroadcastTypes == Deployments[deploy].types
ReplyArgs == Deployments[deploy].replies
ClientId(c) == Deployments[deploy].clients[c].clientId
Namespace(c) == Deployments[deploy].clients[c].namespace

\* opts.suppressRedisError
SuppressRedisErrorOption(c) ==
  LET opts == Deployments[deploy].clients[c]
  IN IF "suppressRedisError" \in DOMAIN opts THEN opts.suppressRedisError ELSE Undefined

\* line 55: var supressRedisError = opts.suppressRedisError || true
SupressRedisError(c) ==
  LET option == SuppressRedisErrorOption(c)
  IN IF option # "false" /\ option # Undefined THEN option ELSE "true"

\* lines 56-63: the 'error' handlers are put on both connections
ErrorHandlerInstalled(c) == SupressRedisError(c) = "true"

\* this._namespace, this._clientId: ':' replaced by '-'
EscNamespace(c) == ReplaceFirst(Namespace(c), Colon, Dash)
EscClientId(c) == ReplaceFirst(ClientId(c), Colon, Dash)

MessagePattern(c) == EscNamespace(c) \o Colon \o EscClientId(c) \o Colon \o Star
BroadcastPattern(c) == EscNamespace(c) \o DoubleColon \o Star
RoomPattern(c, room) ==
  EscNamespace(c) \o Colon \o RoomWord \o Colon \o ReplaceFirst(room, Colon, SCMark)
    \o Colon \o Star

(* --------------------------- channel encoding -------------------------- *)
\* broadcastMessage: ns::type::clientId, '::' in the type replaced
BroadcastChannel(c, type) ==
  EscNamespace(c) \o DoubleColon \o ReplaceFirst(type, DoubleColon, DCMark)
    \o DoubleColon \o EscClientId(c)

\* sendMessage: ns:recepientId:clientId:msgId
MessageChannel(c, recepientId, msgId) ==
  EscNamespace(c) \o Colon \o recepientId \o Colon \o EscClientId(c) \o Colon \o IdStr(msgId)

\* sendRoomMessage: ns:room:room:clientId:msgId, ':' in the room replaced
RoomChannel(c, room, msgId) ==
  EscNamespace(c) \o Colon \o RoomWord \o Colon \o ReplaceFirst(room, Colon, SCMark)
    \o Colon \o EscClientId(c) \o Colon \o IdStr(msgId)

\* sendResponse: ns:recepientId:clientId:msgId:r  (msgId is the decoded string)
ResponseChannel(c, recepientId, msgId) ==
  EscNamespace(c) \o Colon \o recepientId \o Colon \o EscClientId(c) \o Colon \o msgId
    \o Colon \o <<"r">>

(* ------------------------------ records -------------------------------- *)
\* where a published channel came from (history, not read by the code)
\* and, for a room message, the clients that had ignored the room by then
Origin(kind, from, name, id, msg) ==
  [kind |-> kind, from |-> from, name |-> name, id |-> id, msg |-> msg,
   late |-> IF kind = "room" THEN {d \in Clients : name \in ignored[d]} ELSE {}]
NoOrigin ==
  [kind |-> "none", from |-> 0, name |-> <<>>, id |-> <<>>, msg |-> "", late |-> {}]

Pub(channel, msg, origin) == [channel |-> channel, msg |-> msg, origin |-> origin]

NoNote == [pattern |-> <<>>, channel |-> <<>>, msg |-> "", origin |-> NoOrigin]

\* a listener the application registered: for 'message' the argument its handler
\* gives reply, for a room the room it was passed to listenToRoom with
Listener(event, reply, room) == [event |-> event, reply |-> reply, room |-> room]

\* one handler invocation by emit
Emit(l, type, sender, msg) ==
  [event |-> l.event, listener |-> l, type |-> type, sender |-> sender, msg |-> msg]

\* one invocation of a sendMessage callback
CbCall(id, err, sender, msg) == [id |-> id, err |-> err, sender |-> sender, msg |-> msg]

\* the result of running a handler; waiting and timers are the new values
Outcome(waiting, tms, emits, cbs, pubs, thrown) ==
  [waiting |-> waiting, timers |-> tms, emits |-> emits, cbs |-> cbs, pubs |-> pubs,
   thrown |-> thrown]

\* EventEmitter.listeners(event)
ListenersOf(c, event) == SelectSeq(listeners[c], LAMBDA l : l.event = event)

\* an array element, undefined past the end
Part(parts, i) == IF i <= Len(parts) THEN parts[i] ELSE UndefinedStr

Falsy(response) == response = Undefined \/ response = ""

(* ---------------------------- handlePMessage --------------------------- *)
\* An exception leaves the handler that throws it; what the handler wrote
\* before stays.  The process is taken to go on after it (the application
\* handles 'uncaughtException'); a process that dies instead takes no further
\* step, which is a prefix of a behaviour described here.
Dropped(c) == Outcome(messagesWaiting[c], timers[c], <<>>, <<>>, <<>>, "none")
Thrown(c, error) == Outcome(messagesWaiting[c], timers[c], <<>>, <<>>, <<>>, error)

\* the type and the sender handlePMessage reads from a broadcast channel
\* (lines 224, 235-236)
DecodeBroadcast(channel) ==
  LET bcparts == Split(channel, DoubleColon)
  IN [name |-> ReplaceFirst(Part(bcparts, 2), DCMark, DoubleColon),
      sender |-> Part(bcparts, 3)]

\* the room and the sender handlePMessage reads from a room channel
\* (lines 245-248)
DecodeRoom(channel) ==
  LET rparts == Split(channel, Colon)
  IN [name |-> ReplaceFirst(Part(rparts, 3), SCMark, Colon),
      sender |-> Part(rparts, 4)]

\* lines 218-240; 'sender' is the function's hoisted var, not yet assigned
HandleBroadcast(c, channel, msg) ==
  LET ls == ListenersOf(c, EvBroadcast)
      bcparts == Split(channel, DoubleColon)
  IN IF Len(ls) = 0 THEN Dropped(c)
     ELSE IF Len(bcparts) < 3 THEN Dropped(c)
     ELSE IF bcparts[1] # EscNamespace(c) THEN Dropped(c)
     ELSE LET btype == DecodeBroadcast(channel).name
              sender == UndefinedStr
          IN Outcome(messagesWaiting[c], timers[c],
                     [i \in 1..Len(ls) |-> Emit(ls[i], btype, sender, msg)],
                     <<>>, <<>>, "none")

\* lines 243-251
HandleRoom(c, channel, msg) ==
  LET rparts == Split(channel, Colon)
  IN IF Len(rparts) < 3 THEN Thrown(c, "TypeError")
     ELSE LET room == DecodeRoom(channel).name
              rsender == DecodeRoom(channel).sender
              ls == ListenersOf(c, RoomEvent(room))
          IN Outcome(messagesWaiting[c], timers[c],
                     [i \in 1..Len(ls) |-> Emit(ls[i], NoStr, rsender, msg)],
                     <<>>, <<>>, "none")

\* lines 286-292: this._messagesWaiting[msgId] is dereferenced unguarded
HandleResponse(c, sender, msgId, msg) ==
  IF msgId \notin DOMAIN messagesWaiting[c] THEN Thrown(c, "TypeError")
  ELSE LET entry == messagesWaiting[c][msgId]
       IN Outcome([k \in DOMAIN messagesWaiting[c] \ {msgId} |-> messagesWaiting[c][k]],
                  timers[c] \ {entry.timeout},
                  <<>>,
                  <<CbCall(entry.callback, "none", sender, msg)>>,
                  <<>>, "none")

\* lines 294-302 and sendResponse: every 'message' listener gets a reply closure
HandleFresh(c, sender, msgId, msg) ==
  LET ls == ListenersOf(c, EvMessage)
      replying == SelectSeq(ls, LAMBDA l : ~Falsy(l.reply))
  IN Outcome(messagesWaiting[c], timers[c],
             [i \in 1..Len(ls) |-> Emit(ls[i], NoStr, sender, msg)],
             <<>>,
             [i \in 1..Len(replying) |->
                Pub(ResponseChannel(c, sender, msgId), replying[i].reply,
                    Origin("response", c, sender, msgId, replying[i].reply))],
             "none")

\* lines 253-302
HandleDirect(c, channel, msg) ==
  LET cparts == Split(channel, Colon)
  IN IF Len(ListenersOf(c, EvMessage)) = 0 THEN Dropped(c)
     ELSE IF Len(cparts) < 4 THEN Dropped(c)
     ELSE IF cparts[1] # EscNamespace(c) THEN Dropped(c)
     ELSE LET recepient == cparts[2]
              sender == cparts[3]
              msgId == cparts[4]
              msgType == IF Len(cparts) > 4 THEN cparts[5] ELSE <<"m">>
          IN IF recepient # EscClientId(c) THEN Dropped(c)
             ELSE IF msgType = <<"r">> THEN HandleResponse(c, sender, msgId, msg)
             ELSE HandleFresh(c, sender, msgId, msg)

\* Remus.prototype.handlePMessage
HandlePMessage(c, pattern, channel, msg) ==
  IF pattern = BroadcastPattern(c) THEN HandleBroadcast(c, channel, msg)
  ELSE IF StartsWith(pattern, EscNamespace(c) \o Colon \o RoomWord \o Colon)
       THEN HandleRoom(c, channel, msg)
  ELSE IF pattern # MessagePattern(c) THEN Dropped(c)
  ELSE HandleDirect(c, channel, msg)

(* ------------------------------ transport ------------------------------ *)
\* redis PUBLISH: one pmessage per subscribed pattern that matches the channel
Notes(d, pub) ==
  LET ps == SelectSeq(subs[d], LAMBDA p : GlobMatch(p, pub.channel))
  IN [i \in 1..Len(ps) |->
        [pattern |-> ps[i], channel |-> pub.channel, msg |-> pub.msg,
         origin |-> pub.origin]]

RECURSIVE Fanout(_, _)
Fanout(ib, pubs) ==
  IF pubs = <<>> THEN ib
  ELSE Fanout([d \in DOMAIN ib |-> ib[d] \o Notes(d, Head(pubs))], Tail(pubs))

\* outgoingClient.publish: nothing is sent once the connection was quit
Publish(c, ib, pubs) == IF outgoingQuit[c] THEN ib ELSE Fanout(ib, pubs)

InboxFits(ib) == \A d \in DOMAIN ib : Len(ib[d]) <= MaxInbox

\* incomingClient.psubscribe
PSubscribe(ps, pattern) ==
  IF \E i \in 1..Len(ps) : ps[i] = pattern THEN ps ELSE Append(ps, pattern)

\* incomingClient.punsubscribe
PUnsubscribe(ps, pattern) == SelectSeq(ps, LAMBDA p : p # pattern)

Step(op, c, arg, note, out) ==
  [op |-> op, client |-> c, arg |-> arg, note |-> note, emits |-> out.emits,
   cbs |-> out.cbs, pubs |-> out.pubs, thrown |-> out.thrown]

Quiet(c) == Outcome(messagesWaiting[c], timers[c], <<>>, <<>>, <<>>, "none")
Sent(c, pub) == Outcome(messagesWaiting[c], timers[c], <<>>, <<>>, <<pub>>, "none")

(* -------------------------------- Init --------------------------------- *)
\* the state after every client's constructor ran (lines 87-115), in one of
\* the deployments ds, and after each application registered handlers
InitOf(ds, handlers) ==
  /\ deploy \in {i \in DOMAIN Deployments : Deployments[i] \in ds}
  /\ subs = [c \in Clients |-> <<MessagePattern(c), BroadcastPattern(c)>>]
  /\ listeners = [c \in Clients |-> handlers]
  /\ inbox = [c \in Clients |-> <<>>]
  /\ messageId = [c \in Clients |-> 0]
  /\ messagesWaiting = [c \in Clients |-> <<>>]
  /\ timers = [c \in Clients |-> {}]
  /\ outgoingQuit = [c \in Clients |-> FALSE]
  /\ punsubListeners = [c \in Clients |-> 0]
  /\ punsubPending = [c \in Clients |-> 0]
  /\ cbCalls = [c \in Clients |-> <<>>]
  /\ fired = [c \in Clients |-> {}]
  /\ ignored = [c \in Clients |-> {}]
  /\ ops = 0
  /\ last = Step("init", 0, <<>>, NoNote, Outcome(<<>>, {}, <<>>, <<>>, <<>>, "none"))

Init == InitOf({PlainPair, RoomNamedPair, ColonRoomPair}, <<>>)

(* ------------------------------- actions ------------------------------- *)
\* the application calls on('message', handler); the handler calls reply(reply)
OnMessage(c, reply) ==
  /\ ops < MaxOps
  /\ ops' = ops + 1
  /\ listeners' = [listeners EXCEPT ![c] = Append(@, Listener(EvMessage, reply, <<>>))]
  /\ last' = Step("on", c, EvMessage, NoNote, Quiet(c))
  /\ UNCHANGED <<fired, ignored, deploy, subs, inbox, messageId, messagesWaiting, timers, outgoingQuit,
                 punsubListeners, punsubPending, cbCalls>>

\* the application calls on('broadcast', handler)
OnBroadcast(c) ==
  /\ ops < MaxOps
  /\ ops' = ops + 1
  /\ listeners' = [listeners EXCEPT ![c] = Append(@, Listener(EvBroadcast, "", <<>>))]
  /\ last' = Step("on", c, EvBroadcast, NoNote, Quiet(c))
  /\ UNCHANGED <<fired, ignored, deploy, subs, inbox, messageId, messagesWaiting, timers, outgoingQuit,
                 punsubListeners, punsubPending, cbCalls>>

\* Remus.prototype.broadcastMessage
BroadcastMessage(c, type, msg) ==
  LET pub == Pub(BroadcastChannel(c, type), msg, Origin("broadcast", c, type, <<>>, msg))
      ib == Publish(c, inbox, <<pub>>)
  IN /\ ops < MaxOps
     /\ InboxFits(ib)
     /\ ops' = ops + 1
     /\ inbox' = ib
     /\ last' = Step("broadcastMessage", c, type, NoNote, Sent(c, pub))
     /\ UNCHANGED <<fired, ignored, deploy, subs, listeners, messageId, messagesWaiting, timers,
                    outgoingQuit, punsubListeners, punsubPending, cbCalls>>

\* an id counter that hands out the value it holds
StaleMessageId(c) == messageId[c]

\* ++this._messageId (lines 139, 168)
NextMessageId(c) == messageId[c] + 1

\* what the callback given to sendMessage knows of the call: a requester of
\* EchoTrio passes a closure that knows whom it asked, the applications of
\* the other deployments pass one that knows nothing
Asked(recepientId) ==
  IF "requesters" \in DOMAIN Deployments[deploy] THEN recepientId ELSE NoStr

\* the table after sendMessage registered msgId (lines 144-155); the callback
\* is named by the msgId it was given with and by what it knows
Register(c, msgId, recepientId) ==
  [k \in DOMAIN messagesWaiting[c] \cup {IdStr(msgId)} |->
     IF k = IdStr(msgId)
     THEN [callback |-> msgId, timeout |-> msgId, asked |-> Asked(recepientId)]
     ELSE messagesWaiting[c][k]]

\* a sendMessage that registers whatever it is called with
WaitsForResponseAlways(callback) == TRUE

\* line 144: a response is waited for when a callback is supplied
WaitsForResponse(callback) == callback

\* Remus.prototype.sendMessage
SendMessage(c, recepientId, msg, callback) ==
  LET msgId == NextMessageId(c)
      pub == Pub(MessageChannel(c, recepientId, msgId), msg,
                 Origin("message", c, recepientId, IdStr(msgId), msg))
      ib == Publish(c, inbox, <<pub>>)
  IN /\ ops < MaxOps
     /\ InboxFits(ib)
     /\ ops' = ops + 1
     /\ messageId' = [messageId EXCEPT ![c] = msgId]
     /\ IF WaitsForResponse(callback)
        THEN /\ timers' = [timers EXCEPT ![c] = @ \cup {msgId}]
             /\ messagesWaiting' = [messagesWaiting EXCEPT ![c] = Register(c, msgId, recepientId)]
        ELSE UNCHANGED <<timers, messagesWaiting>>
     /\ inbox' = ib
     /\ last' = Step(IF callback THEN "sendMessage+callback" ELSE "sendMessage",
                     c, IdStr(msgId), NoNote, Sent(c, pub))
     /\ UNCHANGED <<deploy, subs, listeners, outgoingQuit, punsubListeners,
                    punsubPending, cbCalls, fired, ignored>>

\* Remus.prototype.sendRoomMessage
SendRoomMessage(c, room, msg) ==
  LET msgId == NextMessageId(c)
      pub == Pub(RoomChannel(c, room, msgId), msg,
                 Origin("room", c, room, IdStr(msgId), msg))
      ib == Publish(c, inbox, <<pub>>)
  IN /\ ops < MaxOps
     /\ InboxFits(ib)
     /\ ops' = ops + 1
     /\ messageId' = [messageId EXCEPT ![c] = msgId]
     /\ inbox' = ib
     /\ last' = Step("sendRoomMessage", c, room, NoNote, Sent(c, pub))
     /\ UNCHANGED <<fired, ignored, deploy, subs, listeners, messagesWaiting, timers, outgoingQuit,
                    punsubListeners, punsubPending, cbCalls>>

\* Remus.prototype.listenToRoom; the handler is named by the room it is given for
ListenToRoom(c, room) ==
  /\ ops < MaxOps
  /\ ops' = ops + 1
  /\ subs' = [subs EXCEPT ![c] = PSubscribe(@, RoomPattern(c, room))]
  /\ listeners' = [listeners EXCEPT ![c] = Append(@, Listener(RoomEvent(room), "", room))]
  /\ ignored' = [ignored EXCEPT ![c] = @ \ {room}]
  /\ last' = Step("listenToRoom", c, room, NoNote, Quiet(c))
  /\ UNCHANGED <<fired, deploy, inbox, messageId, messagesWaiting, timers, outgoingQuit,
                 punsubListeners, punsubPending, cbCalls>>

\* the listeners left by ignoreRoom(room, callback): typeof never yields
\* 'Function', so with or without a callback removeAllListeners(room) runs,
\* on the event named room
IgnoredListeners(c, room, withCallback) ==
  SelectSeq(listeners[c], LAMBDA l : l.event # room)

\* Remus.prototype.ignoreRoom
IgnoreRoom(c, room, withCallback) ==
  /\ ops < MaxOps
  /\ ops' = ops + 1
  /\ listeners' = [listeners EXCEPT ![c] = IgnoredListeners(c, room, withCallback)]
  /\ ignored' = [ignored EXCEPT ![c] = @ \cup {room}]
  /\ last' = Step("ignoreRoom", c, room, NoNote, Quiet(c))
  /\ UNCHANGED <<fired, deploy, subs, inbox, messageId, messagesWaiting, timers, outgoingQuit,
                 punsubListeners, punsubPending, cbCalls>>

\* the 'pmessage' handler of the constructor (lines 94-96) runs handlePMessage
Deliver(c) ==
  /\ inbox[c] # <<>>
  /\ LET note == Head(inbox[c])
         out == HandlePMessage(c, note.pattern, note.channel, note.msg)
         ib == Publish(c, [inbox EXCEPT ![c] = Tail(@)], out.pubs)
     IN /\ InboxFits(ib)
        /\ inbox' = ib
        /\ messagesWaiting' = [messagesWaiting EXCEPT ![c] = out.waiting]
        /\ timers' = [timers EXCEPT ![c] = out.timers]
        /\ cbCalls' = [cbCalls EXCEPT ![c] = @ \o out.cbs]
        /\ last' = Step("pmessage", c, <<>>, note, out)
  /\ UNCHANGED <<fired, ignored, deploy, subs, listeners, messageId, outgoingQuit, punsubListeners,
                 punsubPending, ops>>

\* the function given to setTimeout (lines 146-149): 'this' is the timer, so
\* this._messagesWaiting is undefined and the delete throws
TimeoutOutcome(c, msgId) == Thrown(c, "TypeError")

\* a deadline timer fires
TimerFire(c, msgId) ==
  /\ msgId \in timers[c]
  /\ LET out == TimeoutOutcome(c, msgId)
     IN /\ timers' = [timers EXCEPT ![c] = out.timers \ {msgId}]
        /\ messagesWaiting' = [messagesWaiting EXCEPT ![c] = out.waiting]
        /\ cbCalls' = [cbCalls EXCEPT ![c] = @ \o out.cbs]
        /\ fired' = [fired EXCEPT ![c] = @ \cup {msgId}]
        /\ last' = Step("timeout", c, IdStr(msgId), NoNote, out)
  /\ UNCHANGED <<ignored, deploy, subs, listeners, inbox, messageId, outgoingQuit,
                 punsubListeners, punsubPending, ops>>

\* the ids of the for-in loop of close, in the order of insertion
RECURSIVE KeysInOrder(_, _)
KeysInOrder(c, n) ==
  IF n = 0 THEN <<>>
  ELSE KeysInOrder(c, n - 1)
         \o (IF IdStr(n) \in DOMAIN messagesWaiting[c] THEN <<IdStr(n)>> ELSE <<>>)

\* a close whose loop forgets clearTimeout
CloseOutcomeLeak(c) ==
  LET keys == KeysInOrder(c, messageId[c])
  IN Outcome(<<>>, timers[c], <<>>,
             [i \in 1..Len(keys) |->
                CbCall(messagesWaiting[c][keys[i]].callback, "closed", NullStr, Undefined)],
             <<>>, "none")

\* the loop of close (lines 329-334)
CloseOutcome(c) ==
  LET keys == KeysInOrder(c, messageId[c])
  IN Outcome(<<>>,
             timers[c] \ {messagesWaiting[c][k].timeout : k \in DOMAIN messagesWaiting[c]},
             <<>>,
             [i \in 1..Len(keys) |->
                CbCall(messagesWaiting[c][keys[i]].callback, "closed", NullStr, Undefined)],
             <<>>, "none")

\* Remus.prototype.close
Close(c) ==
  /\ ops < MaxOps
  /\ ops' = ops + 1
  /\ LET out == CloseOutcome(c)
     IN /\ punsubListeners' = [punsubListeners EXCEPT ![c] = @ + 1]
        /\ punsubPending' = [punsubPending EXCEPT ![c] = @ + 1]
        /\ subs' = [subs EXCEPT ![c] = PUnsubscribe(@, MessagePattern(c))]
        /\ outgoingQuit' = [outgoingQuit EXCEPT ![c] = TRUE]
        /\ timers' = [timers EXCEPT ![c] = out.timers]
        /\ messagesWaiting' = [messagesWaiting EXCEPT ![c] = out.waiting]
        /\ cbCalls' = [cbCalls EXCEPT ![c] = @ \o out.cbs]
        /\ last' = Step("close", c, <<>>, NoNote, out)
  /\ UNCHANGED <<fired, ignored, deploy, listeners, inbox, messageId>>

\* redis answers a punsubscribe: the handlers close put on 'punsubscribe' run
\* (lines 324-326); 'self' is not defined in close, so the first one throws
PUnsubscribed(c) ==
  /\ punsubPending[c] > 0
  /\ punsubPending' = [punsubPending EXCEPT ![c] = @ - 1]
  /\ last' = Step("punsubscribe", c, <<>>, NoNote,
                  IF punsubListeners[c] > 0 THEN Thrown(c, "ReferenceError") ELSE Quiet(c))
  /\ UNCHANGED <<fired, ignored, deploy, subs, listeners, inbox, messageId, messagesWaiting, timers,
                 outgoingQuit, punsubListeners, cbCalls, ops>>

\* what the example script registers after it constructed its client, with a
\* handler that replies
ScriptHandlers == <<Listener(EvMessage, "ok", <<>>)>>

\* the process of a client ends and is started again: the constructor runs
\* with the same options and the script registers its handler; what was on
\* its way to the old connection is lost, and so are the table and the timers
Restart(c) ==
  /\ ops < MaxOps
  /\ ops' = ops + 1
  /\ subs' = [subs EXCEPT ![c] = <<MessagePattern(c), BroadcastPattern(c)>>]
  /\ listeners' = [listeners EXCEPT ![c] = ScriptHandlers]
  /\ inbox' = [inbox EXCEPT ![c] = <<>>]
  /\ messageId' = [messageId EXCEPT ![c] = 0]
  /\ messagesWaiting' = [messagesWaiting EXCEPT ![c] = <<>>]
  /\ timers' = [timers EXCEPT ![c] = {}]
  /\ outgoingQuit' = [outgoingQuit EXCEPT ![c] = FALSE]
  /\ punsubListeners' = [punsubListeners EXCEPT ![c] = 0]
  /\ punsubPending' = [punsubPending EXCEPT ![c] = 0]
  /\ fired' = [fired EXCEPT ![c] = {}]
  /\ ignored' = [ignored EXCEPT ![c] = {}]
  /\ last' = Step("restart", c, <<>>, NoNote, Outcome(<<>>, {}, <<>>, <<>>, <<>>, "none"))
  /\ UNCHANGED <<deploy, cbCalls>>

\* a connection of the client emits 'error': the handler of lines 57-62 logs
\* it; without a handler the EventEmitter throws it into the application
RedisError(c, connection) ==
  /\ last' = Step("error", c, connection, NoNote,
                  IF ErrorHandlerInstalled(c) THEN Quiet(c) ELSE Thrown(c, "RedisError"))
  /\ UNCHANGED <<deploy, subs, listeners, inbox, messageId, messagesWaiting, timers,
                 outgoingQuit, punsubListeners, punsubPending, cbCalls, fired, ignored,
                 ops>>

Next ==
  \/ \E c \in Clients, reply \in ReplyArgs : OnMessage(c, reply)
  \/ \E c \in Clients : OnBroadcast(c)
  \/ \E c \in Clients, type \in BroadcastTypes, msg \in Msgs : BroadcastMessage(c, type, msg)
  \/ \E c \in Clients, d \in Clients, msg \in Msgs, callback \in BOOLEAN :
       SendMessage(c, ClientId(d), msg, callback)
  \/ \E c \in Clients, room \in RoomNames, msg \in Msgs : SendRoomMessage(c, room, msg)
  \/ \E c \in Clients, room \in RoomNames : ListenToRoom(c, room)
  \/ \E c \in Clients, room \in RoomNames, withCallback \in BOOLEAN :
       IgnoreRoom(c, room, withCallback)
  \/ \E c \in Clients : Deliver(c)
  \/ \E c \in Clients, msgId \in 1..MaxOps : TimerFire(c, msgId)
  \/ \E c \in Clients : Close(c)
  \/ \E c \in Clients : PUnsubscribed(c)

Spec == Init /\ [][Next]_vars

\* the applications use direct messages only
NextDirect ==
  \/ \E c \in Clients, reply \in ReplyArgs : OnMessage(c, reply)
  \/ \E c \in Clients, d \in Clients, msg \in Msgs, callback \in BOOLEAN :
       SendMessage(c, ClientId(d), msg, callback)
  \/ \E c \in Clients : Deliver(c)
  \/ \E c \in Clients, msgId \in 1..MaxOps : TimerFire(c, msgId)
  \/ \E c \in Clients : Close(c)
  \/ \E c \in Clients : PUnsubscribed(c)

\* two plainly named clients
InitDirect == Init /\ Deployments[deploy] = PlainPair

SpecDirect == InitDirect /\ [][NextDirect]_vars

\* direct messages and room messages that nobody listens to
NextIds ==
  \/ \E c \in Clients, reply \in ReplyArgs : OnMessage(c, reply)
  \/ \E c \in Clients, d \in Clients, msg \in Msgs, callback \in BOOLEAN :
       SendMessage(c, ClientId(d), msg, callback)
  \/ \E c \in Clients, room \in RoomNames, msg \in Msgs : SendRoomMessage(c, room, msg)
  \/ \E c \in Clients : Deliver(c)
  \/ \E c \in Clients, msgId \in 1..MaxOps : TimerFire(c, msgId)
  \/ \E c \in Clients : Close(c)

SpecIds == InitDirect /\ [][NextIds]_vars

\* three services that answer every message, send direct messages and are
\* restarted
NextRestart ==
  \/ \E c \in Deployments[deploy].requesters, d \in Clients, msg \in Msgs,
          callback \in BOOLEAN :
       SendMessage(c, ClientId(d), msg, callback)
  \/ \E c \in Clients : Deliver(c)
  \/ \E c \in Clients, msgId \in 1..MaxOps : TimerFire(c, msgId)
  \/ \E c \in Clients : Restart(c)

InitRestart == InitOf({EchoTrio}, ScriptHandlers)

SpecRestart == InitRestart /\ [][NextRestart]_vars

\* the applications send and close while the connections to redis fail
NextPolicy ==
  \/ \E c \in Clients, d \in Clients, msg \in Msgs, callback \in BOOLEAN :
       SendMessage(c, ClientId(d), msg, callback)
  \/ \E c \in Clients : Close(c)
  \/ \E c \in Clients, connection \in {"incomingClient", "outgoingClient"} :
       RedisError(c, connection)

InitPolicy == InitOf({PolicyTrio}, <<>>)

SpecPolicy == InitPolicy /\ [][NextPolicy]_vars

(* ------------------------------ properties ----------------------------- *)
\* the step is Deliver(c): handlePMessage ran on the head of c's inbox
IsDeliver(c) == last'.op = "pmessage" /\ last'.client = c
\* the step is Close(c)
IsClose(c) == last'.op = "close" /\ last'.client = c /\ ops' = ops + 1

\* how often the callback of send msgId was invoked
CallCount(calls, msgId) == Cardinality({i \in 1..Len(calls) : calls[i].id = msgId})

\* the notification is a response that d published for a message c sent it
IsResponseTo(c, note) ==
  /\ note.origin.kind = "response"
  /\ note.origin.name = ClientId(c)
  /\ Namespace(note.origin.from) = Namespace(c)

\* the notification is a message published by sendMessage for the client c
IsFreshTo(c, note) ==
  /\ note.origin.kind = "message"
  /\ note.origin.name = ClientId(c)
  /\ Namespace(note.origin.from) = Namespace(c)

\* C1: when a response to a pending send of A is processed by A while its
\* deadline timer is still live, the callback is invoked exactly once with
\* (no error, the replier's identity, the reply), the timer is cancelled and
\* the entry is removed.
C1_ResponseResolves ==
  [][\A c \in Clients :
       (/\ IsDeliver(c)
        /\ IsResponseTo(c, Head(inbox[c]))
        /\ Head(inbox[c]).origin.id \in DOMAIN messagesWaiting[c]
        /\ messagesWaiting[c][Head(inbox[c]).origin.id].timeout \in timers[c])
       => LET note == Head(inbox[c])
              entry == messagesWaiting[c][note.origin.id]
          IN /\ cbCalls'[c] = Append(cbCalls[c],
                    CbCall(entry.callback, "none", ClientId(note.origin.from), note.msg))
             /\ CallCount(cbCalls'[c], entry.callback) = 1
             /\ entry.timeout \notin timers'[c]
             /\ note.origin.id \notin DOMAIN messagesWaiting'[c]]_vars

\* C2: a deadline timer that fires for a pending send removes the entry and
\* invokes the callback exactly once with a timeout error and no payload;
\* afterwards a response with that id resolves nothing.
C2_TimeoutExpires ==
  [][\A c \in Clients :
       /\ (/\ last'.op = "timeout" /\ last'.client = c
           /\ last'.arg \in DOMAIN messagesWaiting[c])
          => /\ last'.arg \notin DOMAIN messagesWaiting'[c]
             /\ cbCalls'[c] = Append(cbCalls[c],
                  CbCall(messagesWaiting[c][last'.arg].callback, "timeout", NullStr, Undefined))
             /\ CallCount(cbCalls'[c], messagesWaiting[c][last'.arg].callback) = 1
       /\ \A msgId \in fired[c] :
            \A i \in 1..Len(cbCalls'[c]) :
               cbCalls'[c][i].id = msgId => cbCalls'[c][i].err = "timeout"]_vars

\* C3: close() invokes every pending callback exactly once with a closed
\* error, cancels every pending deadline timer and leaves the table empty and
\* no timer live.
C3_CloseExpiresAll ==
  [][\A c \in Clients :
       IsClose(c)
       => /\ messagesWaiting'[c] = <<>>
          /\ timers'[c] = {}
          /\ Len(cbCalls'[c]) = Len(cbCalls[c]) + Cardinality(DOMAIN messagesWaiting[c])
          /\ \A k \in DOMAIN messagesWaiting[c] :
               /\ CallCount(cbCalls'[c], messagesWaiting[c][k].callback) = 1
               /\ \E i \in (Len(cbCalls[c]) + 1)..Len(cbCalls'[c]) :
                    cbCalls'[c][i] =
                      CbCall(messagesWaiting[c][k].callback, "closed", NullStr, Undefined)]_vars

\* close ran on a client with two pending sends
C3_Witness ==
  /\ last.op = "close"
  /\ Len(last.cbs) = 2
  /\ messageId[last.client] = 2

\* C4: under every interleaving of responses, duplicate responses, timer
\* firings and close, no callback is invoked more than once, and whichever of
\* response, timeout or close is processed first for an id decides it: once
\* the deadline timer of an id has fired, its callback has the timeout
\* outcome and no other.
C4_FirstWins ==
  \A c \in Clients :
    \A i \in 1..Len(cbCalls[c]) :
      /\ CallCount(cbCalls[c], cbCalls[c][i].id) = 1
      /\ cbCalls[c][i].id \in fired[c] => cbCalls[c][i].err = "timeout"

\* C5: a well-formed response addressed to this client whose correlation id
\* has no pending entry is dropped silently: nothing is thrown, no callback
\* or handler runs and the table stays as it is.
C5_UnknownIdDropped ==
  [][\A c \in Clients :
       (/\ IsDeliver(c)
        /\ IsResponseTo(c, Head(inbox[c]))
        /\ Head(inbox[c]).pattern = MessagePattern(c)
        /\ Head(inbox[c]).origin.id \notin DOMAIN messagesWaiting[c])
       => /\ last'.thrown = "none"
          /\ last'.emits = <<>>
          /\ last'.cbs = <<>>
          /\ messagesWaiting'[c] = messagesWaiting[c]]_vars

\* C6: a room message sent to room R after a client called ignoreRoom(R) is
\* not delivered to the handler the client had given listenToRoom(R, handler).
C6_IgnoredRoomSilent ==
  (last.op = "pmessage" /\ last.note.origin.kind = "room")
  => \A i \in 1..Len(last.emits) :
       ~ (/\ last.emits[i].listener.room = last.note.origin.name
          /\ last.client \in last.note.origin.late
          /\ last.note.origin.name \in ignored[last.client])

\* C7: a message sent with sendRoomMessage(R, p) by X reaches only handlers
\* registered through listenToRoom(R, handler), as event room:R with
\* (X's identity, p).
C7_RoomOnlyToItsListeners ==
  (last.op = "pmessage" /\ last.note.origin.kind = "room")
  => \A i \in 1..Len(last.emits) :
       /\ last.emits[i].listener.room = last.note.origin.name
       /\ last.emits[i].event = RoomEvent(last.note.origin.name)
       /\ last.emits[i].sender = ClientId(last.note.origin.from)
       /\ last.emits[i].msg = last.note.origin.msg

\* C8: a client with a broadcast listener that receives a broadcast published
\* by broadcastMessage(type, p) on X in its namespace emits one broadcast
\* event with (type, X's identity, p).
C8_BroadcastArguments ==
  (/\ last.op = "pmessage"
   /\ last.note.origin.kind = "broadcast"
   /\ last.note.pattern = BroadcastPattern(last.client)
   /\ Namespace(last.note.origin.from) = Namespace(last.client)
   /\ Len(ListenersOf(last.client, EvBroadcast)) > 0)
  => LET ls == ListenersOf(last.client, EvBroadcast)
     IN last.emits =
          [i \in 1..Len(ls) |->
             Emit(ls[i], last.note.origin.name, ClientId(last.note.origin.from),
                  last.note.origin.msg)]

\* C9: a fresh direct message from S with correlation id c delivered to a
\* client with a message listener emits message(S, payload, reply); a reply
\* with a non-empty payload publishes one response channel addressed to S,
\* sent by the receiver, with the id c; an empty or absent payload publishes
\* nothing.
C9_ReplySendsResponse ==
  \A c \in Clients :
    (/\ last.op = "pmessage" /\ last.client = c
     /\ IsFreshTo(c, last.note)
     /\ Len(ListenersOf(c, EvMessage)) > 0)
    => LET ls == ListenersOf(c, EvMessage)
           S == ClientId(last.note.origin.from)
           replying == SelectSeq(ls, LAMBDA l : l.reply # "" /\ l.reply # Undefined)
       IN /\ last.emits =
               [i \in 1..Len(ls) |-> Emit(ls[i], NoStr, S, last.note.origin.msg)]
          /\ Len(last.pubs) = Len(replying)
          /\ \A i \in 1..Len(last.pubs) :
               /\ last.pubs[i].channel =
                    Namespace(c) \o Colon \o S \o Colon \o ClientId(c) \o Colon
                      \o last.note.origin.id \o Colon \o <<"r">>
               /\ last.pubs[i].msg = replying[i].reply

\* C10: a fresh direct message delivered to a client without message
\* listeners emits no event, publishes no response and leaves the table as
\* it is.
C10_NoListenerNoEffect ==
  [][\A c \in Clients :
       (/\ IsDeliver(c)
        /\ IsFreshTo(c, Head(inbox[c]))
        /\ Len(ListenersOf(c, EvMessage)) = 0)
       => /\ last'.emits = <<>>
          /\ last'.pubs = <<>>
          /\ messagesWaiting'[c] = messagesWaiting[c]]_vars

\* C11: sendMessage called without a callback adds no entry to the table and
\* schedules no deadline timer: the table and the live timers of the client
\* are the same before and after the call.
C11_NoCallbackNoEntry ==
  [][\A c \in Clients :
       (last'.op = "sendMessage" /\ last'.client = c /\ ops' = ops + 1)
       => /\ messagesWaiting'[c] = messagesWaiting[c]
          /\ timers'[c] = timers[c]]_vars

\* a send without a callback by a client that has a pending send
C11_Witness ==
  /\ last.op = "sendMessage"
  /\ messageId[last.client] = 2
  /\ DOMAIN messagesWaiting[last.client] = {IdStr(1)}
  /\ timers[last.client] = {1}

\* C12: after close() returned on a client, no notification and no timer
\* invokes a message, broadcast or room handler or a sendMessage callback of
\* that client.
C12_ClosedIsSilent ==
  \A c \in Clients :
    (/\ outgoingQuit[c]
     /\ last.client = c
     /\ last.op \in {"pmessage", "timeout"})
    => /\ last.emits = <<>>
       /\ last.cbs = <<>>

\* C13: a closed client rejects new sends: sendMessage with a callback called
\* after close() registers no entry, schedules no deadline timer and puts
\* nothing on the transport.
C13_ClosedRejectsSends ==
  [][\A c \in Clients :
       (/\ outgoingQuit[c]
        /\ last'.op = "sendMessage+callback" /\ last'.client = c /\ ops' = ops + 1)
       => /\ messagesWaiting'[c] = messagesWaiting[c]
          /\ timers'[c] = timers[c]
          /\ inbox' = inbox]_vars

\* the name holds the delimiter that its channel field is split on
HasDelimiter(kind, name) ==
  IF kind = "room" THEN IndexOf(name, Colon) > 0
  ELSE IndexOf(name, DoubleColon) > 0 \/ (name # <<>> /\ name[Len(name)] = ":")

\* C14: for a room name that holds ':' and for a broadcast type that holds
\* '::' or ends in ':', what handlePMessage decodes from the channel that
\* sendRoomMessage / broadcastMessage published is the original room name /
\* type and the identity of the sender.
C14_DelimiterRoundTrip ==
  (/\ last.op = "pmessage"
   /\ last.note.origin.kind \in {"room", "broadcast"}
   /\ HasDelimiter(last.note.origin.kind, last.note.origin.name))
  => LET decoded == IF last.note.origin.kind = "room"
                    THEN DecodeRoom(last.note.channel)
                    ELSE DecodeBroadcast(last.note.channel)
     IN /\ decoded.name = last.note.origin.name
        /\ decoded.sender = ClientId(last.note.origin.from)

\* C15: an 'error' of a redis connection follows the suppressRedisError
\* option of the client: true or not given, it is swallowed; false, it is
\* not swallowed and reaches the application.
C15_ErrorPolicy ==
  last.op = "error"
  => IF SuppressRedisErrorOption(last.client) = "false"
     THEN last.thrown # "none"
     ELSE last.thrown = "none"

\* the channel has at least 4 fields, the namespace of the client in the
\* first and the identity of the client in the second
WellAddressed(c, channel) ==
  LET fields == Split(channel, Colon)
  IN /\ Len(fields) >= 4
     /\ fields[1] = EscNamespace(c)
     /\ fields[2] = ClientId(c)

\* C16: a notification on the direct pattern of a client whose channel has
\* fewer than 4 fields, another namespace field or another recipient field
\* is dropped: no event, no callback, no reply and no change of the table or
\* the timers.
C16_OnlyWellAddressed ==
  [][\A c \in Clients :
       (/\ IsDeliver(c)
        /\ Head(inbox[c]).pattern = MessagePattern(c)
        /\ ~WellAddressed(c, Head(inbox[c]).channel))
       => /\ last'.emits = <<>>
          /\ last'.cbs = <<>>
          /\ last'.pubs = <<>>
          /\ messagesWaiting'[c] = messagesWaiting[c]
          /\ timers'[c] = timers[c]]_vars

\* C17: a response for a pending id that arrives at a client with no message
\* listener still invokes the pending callback with (no error, the replier's
\* identity, the reply).
C17_ResponseNeedsNoListener ==
  [][\A c \in Clients :
       (/\ IsDeliver(c)
        /\ IsResponseTo(c, Head(inbox[c]))
        /\ Head(inbox[c]).pattern = MessagePattern(c)
        /\ Head(inbox[c]).origin.id \in DOMAIN messagesWaiting[c]
        /\ Len(ListenersOf(c, EvMessage)) = 0)
       => LET note == Head(inbox[c])
          IN last'.cbs = <<CbCall(messagesWaiting[c][note.origin.id].callback, "none",
                                  ClientId(note.origin.from), note.msg)>>]_vars

\* the step is a sendMessage or a sendRoomMessage of the client c
IsSend(c) ==
  /\ last'.op \in {"sendMessage", "sendMessage+callback", "sendRoomMessage"}
  /\ last'.client = c
  /\ ops' = ops + 1

\* the last ':'-field of a channel
LastField(channel) == Split(channel, Colon)[Len(Split(channel, Colon))]

\* C18: the correlation ids a client issues in sendMessage and
\* sendRoomMessage start at 1 and grow by one with every call, nothing else
\* changes the counter, and the id of a new send has no live entry and no
\* live timer: no id is reused and each id has at most one live entry.
C18_IdsIncrease ==
  /\ \A c \in Clients : messageId[c] = 0
  /\ [][\A c \in Clients :
          IF IsSend(c)
          THEN /\ messageId'[c] = messageId[c] + 1
               /\ LastField(last'.pubs[1].channel) = IdStr(messageId[c] + 1)
               /\ IdStr(messageId[c] + 1) \notin DOMAIN messagesWaiting[c]
               /\ (messageId[c] + 1) \notin timers[c]
               /\ \A k \in DOMAIN messagesWaiting'[c] :
                    \E i \in 1..messageId'[c] : k = IdStr(i)
          ELSE messageId'[c] = messageId[c]]_vars

\* a third id issued by a client that used both kinds of send, while its
\* first id is still pending
C18_Witness ==
  /\ last.op = "sendRoomMessage"
  /\ messageId[last.client] = 3
  /\ LastField(last.pubs[1].channel) = IdStr(3)
  /\ DOMAIN messagesWaiting[last.client] = {IdStr(1)}

\* C19: message classes never cross: a channel published by sendMessage or
\* sendResponse causes no room event on any client, and a channel published
\* by sendRoomMessage causes no message event and resolves no entry.
C19_ClassesNeverCross ==
  last.op = "pmessage"
  => /\ last.note.origin.kind \in {"message", "response"}
        => \A i \in 1..Len(last.emits) :
             ~StartsWith(last.emits[i].event, RoomWord \o Colon)
     /\ last.note.origin.kind = "room"
        => /\ \A i \in 1..Len(last.emits) : last.emits[i].event # EvMessage
           /\ last.cbs = <<>>

\* C20: a pending send addressed to B is resolved only by a response whose
\* sender is B: a response with the same correlation id that another client
\* published for the sender invokes no callback and leaves the entry.
C20_OnlyTheAddresseeResolves ==
  [][\A c \in Clients :
       (/\ IsDeliver(c)
        /\ IsResponseTo(c, Head(inbox[c]))
        /\ Head(inbox[c]).pattern = MessagePattern(c)
        /\ Head(inbox[c]).origin.id \in DOMAIN messagesWaiting[c]
        /\ ClientId(Head(inbox[c]).origin.from)
             # messagesWaiting[c][Head(inbox[c]).origin.id].asked)
       => /\ last'.cbs = <<>>
          /\ messagesWaiting'[c] = messagesWaiting[c]]_vars

====
